---- MODULE Spec2Model ----
(***************************************************************************)
(* NEToolKit, NEAT core: the genome (gene list, known neurons, mutation    *)
(* operators, genetic distance), the innovation pool it stamps structural  *)
(* changes with, and the driver (base_neat) that owns the pool, the        *)
(* population and the species list.                                        *)
(*                                                                         *)
(* Weights are reals in the program; they are integers here and a distance *)
(* is an exact fraction num/den, or NaN where the program divides 0.0 by 0.*)
(***************************************************************************)
EXTENDS Integers, Sequences, FiniteSets, TLC

\* ------------------------------------------------------------------------
\* Parameters of the run (netkit::parameters) and bounds of the model.
\* ------------------------------------------------------------------------

\* params.number_of_inputs, read by genome::genome
NumInputs == 1

\* params.number_of_outputs, read by genome::genome
NumOutputs == 1

\* params.initial_population_size, the number of genomes init() creates
PopSize == 2

\* number of operations applied to the population after init(), any of the
\* eight mutation operators and get_random_mutation
MaxSteps == 1

\* number of operations applied after init() when only the operators that
\* change the structure of a genome are applied
MaxStructuralSteps == 2

\* calls of epoch() after init()
MaxEpochs == 2

\* calls of helper_update_best_genomes_library_with after init()
MaxLibraryCalls == 2

\* params.best_genomes_library_max_size is any of 0..MaxLibrarySize
MaxLibrarySize == 2

\* values drawn from uniform_real_distribution(-initial_weight_perturbation,
\* +initial_weight_perturbation)
InitialWeightDraws == {1}

\* values drawn from uniform_real_distribution(-weight_mutation_power,
\* +weight_mutation_power)
MutationPowerDraws == {1}

\* the eight mutation selection weights of params, in the order random_mutate
\* subtracts them
mutation_weights ==
    [add_link |-> 1, add_neuron |-> 1, all_weights |-> 1, one_weight |-> 1,
     reset_weights |-> 1, remove_gene |-> 1, reenable_gene |-> 1,
     toggle_enable |-> 1]

sum_all_mutation_weights ==
    mutation_weights.add_link + mutation_weights.add_neuron
    + mutation_weights.all_weights + mutation_weights.one_weight
    + mutation_weights.reset_weights + mutation_weights.remove_gene
    + mutation_weights.reenable_gene + mutation_weights.toggle_enable

\* params.distance_coef_c1 .. c3 and params.compatibility_threshold
distance_coef_c1 == 1
distance_coef_c2 == 1
distance_coef_c3 == 1
compatibility_threshold == 1

best_genomes_library_max_size == 1

BIAS_ID == 0

NEW_LINK == "NEW_LINK"
NEW_NEURON == "NEW_NEURON"

\* ------------------------------------------------------------------------
\* Sequence helpers.
\* ------------------------------------------------------------------------

Range(s) == {s[i] : i \in DOMAIN s}

RemoveAt(s, i) == [k \in 1..(Len(s) - 1) |-> IF k < i THEN s[k] ELSE s[k + 1]]

Abs(x) == IF x < 0 THEN -x ELSE x

Max(a, b) == IF a > b THEN a ELSE b

\* the first of a set of positions of a sequence, 0 when there is none
FirstOf(S) ==
    IF S = {} THEN 0 ELSE CHOOSE i \in S : \A j \in S : i <= j

\* ------------------------------------------------------------------------
\* Gene and innovation records.
\* ------------------------------------------------------------------------

\* gene(innov_num, from, to, weight): a new gene is enabled
Gene(innov_num, from, to, weight) ==
    [innov_num |-> innov_num, from |-> from, to |-> to,
     weight |-> weight, enabled |-> TRUE]

\* gene(innov_num, from, to): the three-argument form used by init()
Gene3(innov_num, from, to) == Gene(innov_num, from, to, 0)

new_link_innovation(innov_num, from, to) ==
    [kind |-> NEW_LINK, innov_num |-> innov_num, innov_num_2 |-> 0,
     from |-> from, to |-> to, new_neuron_id |-> 0]

new_neuron_innovation(innov_num, innov_num_2, from, to, new_neuron_id) ==
    [kind |-> NEW_NEURON, innov_num |-> innov_num, innov_num_2 |-> innov_num_2,
     from |-> from, to |-> to, new_neuron_id |-> new_neuron_id]

\* ------------------------------------------------------------------------
\* Innovation pool: two counters and two registries.
\* ------------------------------------------------------------------------

\* innovation_pool(params): counters at their seeds, empty registries
NewPool ==
    [next_innovation |-> 0,
     next_hidden_neuron_id |-> NumInputs + NumOutputs + 1,
     all_genes |-> << >>,
     all_innovations |-> << >>]

\* next_innovation(): the value returned is pool.next_innovation
after_next_innovation(pool) ==
    [pool EXCEPT !.next_innovation = @ + 1]

\* next_hidden_neuron_id(): the value returned is pool.next_hidden_neuron_id
after_next_hidden_neuron_id(pool) ==
    [pool EXCEPT !.next_hidden_neuron_id = @ + 1]

\* find_gene(from, to): index of the canonical gene of the pair, 0 if none
find_gene(pool, from, to) ==
    FirstOf({i \in DOMAIN pool.all_genes :
                pool.all_genes[i].from = from /\ pool.all_genes[i].to = to})

\* register_gene(g): first write wins for a (from, to) pair
register_gene(pool, g) ==
    IF find_gene(pool, g.from, g.to) # 0
    THEN pool
    ELSE [pool EXCEPT !.all_genes = Append(@, g)]

\* find_innovation(kind, from, to): index of the record, 0 if none
find_innovation(pool, kind, from, to) ==
    FirstOf({i \in DOMAIN pool.all_innovations :
                /\ pool.all_innovations[i].kind = kind
                /\ pool.all_innovations[i].from = from
                /\ pool.all_innovations[i].to = to})

\* register_innovation(rec): first write wins for (kind, from, to)
register_innovation(pool, rec) ==
    IF find_innovation(pool, rec.kind, rec.from, rec.to) # 0
    THEN pool
    ELSE [pool EXCEPT !.all_innovations = Append(@, rec)]

\* ------------------------------------------------------------------------
\* Genome: construction, add_gene, link_exists.
\* ------------------------------------------------------------------------

\* genome::genome(neat*): bias, then the inputs, then the outputs
NewGenome ==
    [genes |-> << >>,
     known_neuron_ids |->
        <<BIAS_ID>>
        \o [i \in 1..NumInputs |-> i]
        \o [i \in 1..NumOutputs |-> i + NumInputs],
     fitness |-> 0]

\* add_gene without the bookkeeping of the known neurons
add_gene_genes_only(g, new_gene) ==
    [g EXCEPT !.genes = Append(@, new_gene)]

add_gene(g, new_gene) ==
    LET k1 == IF new_gene.from \in Range(g.known_neuron_ids)
              THEN g.known_neuron_ids
              ELSE Append(g.known_neuron_ids, new_gene.from)
        k2 == IF new_gene.to \in Range(k1)
              THEN k1
              ELSE Append(k1, new_gene.to)
    IN  [g EXCEPT !.known_neuron_ids = k2, !.genes = Append(@, new_gene)]

link_exists(g, from, to) ==
    \E i \in DOMAIN g.genes : g.genes[i].from = from /\ g.genes[i].to = to

\* ------------------------------------------------------------------------
\* Mutation operators.  Each is the set of the results its random draws can
\* produce: ok is the bool the operator returns, genome and pool are the
\* genome and the innovation pool afterwards, ev describes the structural
\* change that was made.
\* ------------------------------------------------------------------------

NoEvent ==
    [kind |-> "none", sel |-> 0, from |-> 0, to |-> 0, reused |-> FALSE,
     innov_num |-> 0, innov_num_2 |-> 0, new_neuron_id |-> 0]

\* a failure reported after an innovation number has been taken from the pool
Failed_after_allocation(g, pool) ==
    [ok |-> FALSE, genome |-> g, pool |-> after_next_innovation(pool),
     ev |-> NoEvent]

\* return false: the genome and the pool are as they were
Failed(g, pool) ==
    [ok |-> FALSE, genome |-> g, pool |-> pool, ev |-> NoEvent]

Succeeded(g, pool, ev) ==
    [ok |-> TRUE, genome |-> g, pool |-> pool, ev |-> ev]

\* a lookup that never finds the canonical gene
existing_link_gene_none(pool, from, to) == 0

\* the lookup of mutate_add_link: index of the pool's gene for the pair, 0
\* when existing_gene has no value
existing_link_gene(pool, from, to) == find_gene(pool, from, to)

\* mutate_add_link once from, to (0-based positions in m_known_neuron_ids)
\* and the weight have been drawn
add_link_at(g, pool, from_idx, to_idx, w) ==
    LET from == g.known_neuron_ids[from_idx + 1]
        to == g.known_neuron_ids[to_idx + 1]
        existing_gene == existing_link_gene(pool, from, to)
    IN  IF link_exists(g, from, to)
        THEN Failed(g, pool)
        ELSE IF existing_gene # 0
        THEN LET copied_gene ==
                     [pool.all_genes[existing_gene] EXCEPT !.weight = w]
             IN  Succeeded(add_gene(g, copied_gene), pool,
                           [NoEvent EXCEPT !.kind = NEW_LINK,
                                           !.from = from, !.to = to,
                                           !.reused = TRUE,
                                           !.innov_num = copied_gene.innov_num])
        ELSE LET new_gene == Gene(pool.next_innovation, from, to, w)
                 p1 == after_next_innovation(pool)
                 p2 == register_gene(p1, new_gene)
                 p3 == register_innovation(p2,
                           new_link_innovation(new_gene.innov_num,
                                               new_gene.from, new_gene.to))
             IN  Succeeded(add_gene(g, new_gene), p3,
                           [NoEvent EXCEPT !.kind = NEW_LINK,
                                           !.from = from, !.to = to,
                                           !.innov_num = new_gene.innov_num])

\* a destination position that skips the bias only
destination_index_after_bias(d) == d + 1

\* to = destination_selector(rand_engine) + m_number_of_inputs + 1, a 0-based
\* position in m_known_neuron_ids
destination_index(d) == d + NumInputs + 1

mutate_add_link(g, pool) ==
    LET size == Len(g.known_neuron_ids)
    IN  { add_link_at(g, pool, from_idx, destination_index(d), w) :
             from_idx \in 0..(size - 1),
             d \in 0..(size - NumInputs - 2),
             w \in InitialWeightDraws }

\* a lookup that never finds the NEW_NEURON record
existing_neuron_innovation_none(pool, from, to) == 0

\* the lookup of mutate_add_neuron: index of the pool's NEW_NEURON record for
\* the pair, 0 when existing_innovation has no value
existing_neuron_innovation(pool, from, to) ==
    find_innovation(pool, NEW_NEURON, from, to)

\* the selected gene is left as it is
disable_selected_skip(g, sel_idx) == g

\* m_genes[sel_idx].enabled = false
disable_selected(g, sel_idx) ==
    [g EXCEPT !.genes[sel_idx].enabled = FALSE]

\* mutate_add_neuron once the shuffle has put the enabled gene sel_idx
\* (1-based position in m_genes) first among the enabled ones
add_neuron_at(g, pool, sel_idx) ==
    LET sel == g.genes[sel_idx]
        g0 == disable_selected(g, sel_idx)
        existing_innovation == existing_neuron_innovation(pool, sel.from, sel.to)
    IN  IF existing_innovation # 0
        THEN LET rec == pool.all_innovations[existing_innovation]
                 g1 == add_gene(g0, Gene(rec.innov_num, rec.from,
                                         rec.new_neuron_id, sel.weight))
                 g2 == add_gene(g1, Gene(rec.innov_num_2, rec.new_neuron_id,
                                         rec.to, sel.weight))
             IN  Succeeded(g2, pool,
                           [kind |-> NEW_NEURON, sel |-> sel_idx,
                            from |-> sel.from, to |-> sel.to,
                            reused |-> TRUE,
                            innov_num |-> rec.innov_num,
                            innov_num_2 |-> rec.innov_num_2,
                            new_neuron_id |-> rec.new_neuron_id])
        ELSE LET new_neuron_id == pool.next_hidden_neuron_id
                 p1 == after_next_hidden_neuron_id(pool)
                 new_gene_1 == Gene(p1.next_innovation, sel.from,
                                    new_neuron_id, sel.weight)
                 p2 == after_next_innovation(p1)
                 new_gene_2 == Gene(p2.next_innovation, new_neuron_id,
                                    sel.to, sel.weight)
                 p3 == after_next_innovation(p2)
                 p4 == register_gene(p3, new_gene_1)
                 p5 == register_gene(p4, new_gene_2)
                 p6 == register_innovation(p5,
                           new_neuron_innovation(new_gene_1.innov_num,
                                                 new_gene_2.innov_num,
                                                 sel.from, sel.to,
                                                 new_neuron_id))
                 g1 == add_gene(g0, new_gene_1)
                 g2 == add_gene(g1, new_gene_2)
             IN  Succeeded(g2, p6,
                           [kind |-> NEW_NEURON, sel |-> sel_idx,
                            from |-> sel.from, to |-> sel.to,
                            reused |-> FALSE,
                            innov_num |-> new_gene_1.innov_num,
                            innov_num_2 |-> new_gene_2.innov_num,
                            new_neuron_id |-> new_neuron_id])

mutate_add_neuron(g, pool) ==
    LET candidates == {i \in DOMAIN g.genes : g.genes[i].enabled}
    IN  IF candidates = {}
        THEN {Failed(g, pool)}
        ELSE {add_neuron_at(g, pool, sel_idx) : sel_idx \in candidates}

mutate_reenable_gene(g, pool) ==
    LET candidates == {i \in DOMAIN g.genes : ~g.genes[i].enabled}
    IN  IF candidates = {}
        THEN {Failed(g, pool)}
        ELSE {Succeeded([g EXCEPT !.genes[i].enabled = TRUE], pool, NoEvent) :
                 i \in candidates}

mutate_toggle_enable(g, pool) ==
    IF g.genes = << >>
    THEN {Failed(g, pool)}
    ELSE {Succeeded([g EXCEPT !.genes[i].enabled = ~@], pool, NoEvent) :
             i \in DOMAIN g.genes}

mutate_one_weight(g, pool) ==
    IF g.genes = << >>
    THEN {Failed(g, pool)}
    ELSE {Succeeded([g EXCEPT !.genes[i].weight = @ + d], pool, NoEvent) :
             i \in DOMAIN g.genes, d \in MutationPowerDraws}

mutate_all_weights(g, pool) ==
    {Succeeded([g EXCEPT !.genes =
                    [i \in DOMAIN g.genes |->
                        [g.genes[i] EXCEPT !.weight = @ + d[i]]]],
               pool, NoEvent) :
        d \in [DOMAIN g.genes -> MutationPowerDraws]}

mutate_reset_weights(g, pool) ==
    {Succeeded([g EXCEPT !.genes =
                    [i \in DOMAIN g.genes |->
                        [g.genes[i] EXCEPT !.weight = d[i]]]],
               pool, NoEvent) :
        d \in [DOMAIN g.genes -> InitialWeightDraws]}

mutate_remove_gene(g, pool) ==
    IF g.genes = << >>
    THEN {Failed(g, pool)}
    ELSE {Succeeded([g EXCEPT !.genes = RemoveAt(@, i)], pool, NoEvent) :
             i \in DOMAIN g.genes}

\* random_mutate once rnd_val has been drawn
random_mutate_with(g, pool, rnd_val) ==
    LET w == mutation_weights
        r1 == rnd_val - w.add_link
        r2 == r1 - w.add_neuron
        r3 == r2 - w.all_weights
        r4 == r3 - w.one_weight
        r5 == r4 - w.reset_weights
        r6 == r5 - w.remove_gene
    IN  IF rnd_val < w.add_link THEN mutate_add_link(g, pool)
        ELSE IF r1 < w.add_neuron THEN mutate_add_neuron(g, pool)
        ELSE IF r2 < w.all_weights THEN mutate_all_weights(g, pool)
        ELSE IF r3 < w.one_weight THEN mutate_one_weight(g, pool)
        ELSE IF r4 < w.reset_weights THEN mutate_reset_weights(g, pool)
        ELSE IF r5 < w.remove_gene THEN mutate_remove_gene(g, pool)
        ELSE IF r6 < w.reenable_gene THEN mutate_reenable_gene(g, pool)
        ELSE mutate_toggle_enable(g, pool)

random_mutate(g, pool) ==
    UNION {random_mutate_with(g, pool, rnd_val) :
              rnd_val \in 0..(sum_all_mutation_weights - 1)}

\* get_random_mutation: the copy is mutated until a draw succeeds or the
\* test of remaining_tries, made after each failure, finds 0 (the decrement
\* that follows that last test wraps the unsigned counter, which is not read
\* again).  calls counts the invocations of random_mutate.  The returned genome is move-constructed,
\* which sets its fitness to 0.
RECURSIVE mutation_tries(_, _, _, _)
mutation_tries(offspring, pool, remaining_tries, calls) ==
    UNION { IF r.ok
            THEN {[ok |-> TRUE, genome |-> [r.genome EXCEPT !.fitness = 0],
                   pool |-> r.pool, ev |-> r.ev, calls |-> calls + 1]}
            ELSE IF remaining_tries # 0
            THEN mutation_tries(r.genome, r.pool,
                                remaining_tries - 1, calls + 1)
            ELSE {[ok |-> FALSE, genome |-> [r.genome EXCEPT !.fitness = 0],
                   pool |-> r.pool, ev |-> r.ev, calls |-> calls + 1]}
          : r \in random_mutate(offspring, pool) }

get_random_mutation(g, pool) == mutation_tries(g, pool, 3, 0)

\* ------------------------------------------------------------------------
\* Network generation.  A network is the sequence of the kinds of its
\* neurons, the neuron at position p having the id p - 1, and the sequence
\* of its links.
\* ------------------------------------------------------------------------

\* network(): the bias neuron, network::BIAS_ID, is there from the start
NewNetwork == [neurons |-> <<"BIAS">>, links |-> << >>, crash |-> FALSE]

\* network::add_neuron: the id returned is the one of the appended neuron
net_add_neuron(net, kind) ==
    [net |-> [net EXCEPT !.neurons = Append(@, kind)],
     id |-> Len(net.neurons)]

\* link(from_id, to_id, weight)
Link(from_id, to_id, weight) ==
    [from |-> from_id, to |-> to_id, weight |-> weight]

\* network::add_link
net_add_link(net, from_id, to_id, weight) ==
    [net EXCEPT !.links = Append(@, Link(from_id, to_id, weight))]

\* std::map::emplace: a key already present keeps its value
emplace(ids_map, key, value) ==
    IF key \in DOMAIN ids_map THEN ids_map ELSE ids_map @@ (key :> value)

\* ids_map.find(key)->second; for a key that is absent find returns end(),
\* whose dereference is undefined: the process ends or any id is read
find_second(ids_map, key, net) ==
    IF key \in DOMAIN ids_map
    THEN {[crash |-> FALSE, id |-> ids_map[key]]}
    ELSE {[crash |-> TRUE, id |-> 0]}
         \cup {[crash |-> FALSE, id |-> n] : n \in 0..Len(net.neurons)}

\* the loops that add count neurons of one kind, the i-th under key keys[i]
RECURSIVE add_neurons(_, _, _, _)
add_neurons(nm, kind, keys, i) ==
    IF i > Len(keys)
    THEN nm
    ELSE LET added == net_add_neuron(nm.net, kind)
         IN  add_neurons([net |-> added.net,
                          ids_map |-> emplace(nm.ids_map, keys[i], added.id)],
                         kind, keys, i + 1)

\* every gene takes part in the network
gene_is_linked_always(g) == TRUE

\* if (g.enabled)
gene_is_linked(g) == g.enabled

\* the loop over m_genes from gene k on
RECURSIVE add_links(_, _, _, _)
add_links(net, ids_map, genes, k) ==
    IF k > Len(genes) \/ net.crash
    THEN {net}
    ELSE IF ~gene_is_linked(genes[k])
    THEN add_links(net, ids_map, genes, k + 1)
    ELSE UNION { IF f.crash \/ t.crash
                 THEN {[net EXCEPT !.crash = TRUE]}
                 ELSE add_links(net_add_link(net, f.id, t.id, genes[k].weight),
                                ids_map, genes, k + 1)
               : f \in find_second(ids_map, genes[k].from, net),
                 t \in find_second(ids_map, genes[k].to, net) }

generate_network(g) ==
    LET known == g.known_neuron_ids
        nm0 == [net |-> NewNetwork, ids_map |-> (BIAS_ID :> 0)]
        nm1 == add_neurons(nm0, "INPUT", [i \in 1..NumInputs |-> i], 1)
        nm2 == add_neurons(nm1, "OUTPUT",
                           [i \in 1..NumOutputs |-> i + NumInputs], 1)
        nm3 == add_neurons(nm2, "HIDDEN",
                           SubSeq(known, NumInputs + NumOutputs + 2,
                                  Len(known)), 1)
    IN  add_links(nm3.net, nm3.ids_map, g.genes, 1)

\* ------------------------------------------------------------------------
\* Genetic distance.
\* ------------------------------------------------------------------------

NaN == [nan |-> TRUE, num |-> 0, den |-> 1]

Fraction(num, den) == [nan |-> FALSE, num |-> num, den |-> den]

\* operator== and operator< of two doubles: false when either one is NaN
DoubleEq(x, y) == ~x.nan /\ ~y.nan /\ x.num * y.den = y.num * x.den

DoubleLess(x, y) == ~x.nan /\ ~y.nan /\ x.num * y.den < y.num * x.den

\* the first while loop of distance_to, from positions i and j (1-based)
RECURSIVE merge_walk(_, _, _, _, _)
merge_walk(genes1, genes2, i, j, acc) ==
    IF i > Len(genes1) \/ j > Len(genes2)
    THEN [acc EXCEPT !.i = i, !.j = j]
    ELSE IF genes1[i].innov_num = genes2[j].innov_num
    THEN merge_walk(genes1, genes2, i + 1, j + 1,
             [acc EXCEPT !.nb_matching_genes = @ + 1,
                         !.sum_weight_difference =
                             @ + Abs(genes1[i].weight - genes2[j].weight)])
    ELSE IF genes1[i].innov_num < genes2[j].innov_num
    THEN merge_walk(genes1, genes2, i + 1, j,
             [acc EXCEPT !.nb_disjoint_genes = @ + 1])
    ELSE merge_walk(genes1, genes2, i, j + 1,
             [acc EXCEPT !.nb_disjoint_genes = @ + 1])

distance_to(this, other) ==
    LET larger_size == Max(Len(this.genes), Len(other.genes))
        walk == merge_walk(this.genes, other.genes, 1, 1,
                    [nb_disjoint_genes |-> 0, nb_matching_genes |-> 0,
                     sum_weight_difference |-> 0, i |-> 1, j |-> 1])
        nb_excess_genes == (Len(this.genes) - walk.i + 1)
                           + (Len(other.genes) - walk.j + 1)
    IN  IF larger_size <= 4
        THEN Fraction(0, 1)
        ELSE IF walk.nb_matching_genes = 0
        THEN NaN    \* 0.0 / 0 in average_weight_difference
        ELSE Fraction(
                 (distance_coef_c1 * nb_excess_genes
                  + distance_coef_c2 * walk.nb_disjoint_genes)
                     * walk.nb_matching_genes
                 + distance_coef_c3 * walk.sum_weight_difference * larger_size,
                 larger_size * walk.nb_matching_genes)

is_compatible_with(this, other) ==
    DoubleLess(distance_to(this, other), Fraction(compatibility_threshold, 1))

\* ------------------------------------------------------------------------
\* Crossover.  The weights of the genes of an offspring are kept as
\* fractions, the mean of two weights being a half of their sum.
\* ------------------------------------------------------------------------

\* a gene copied with its weight as it is
copied_gene(g) == [g EXCEPT !.weight = Fraction(@, 1)]

\* the lambda of crossover_multipoint_best
multipoint_best_handler(p1, g1, p2, g2) ==
    IF p1.fitness > p2.fitness
    THEN {copied_gene(g1)}
    ELSE {copied_gene(g2)}

\* the lambda of crossover_multipoint_rnd: true_false_selector draws either
multipoint_rnd_handler(p1, g1, p2, g2) ==
    {copied_gene(g1), copied_gene(g2)}

\* the lambda of crossover_multipoint_avg with the sum left undivided
multipoint_avg_handler_sum(p1, g1, p2, g2) ==
    {[g1 EXCEPT !.weight = Fraction(g1.weight + g2.weight, 1)]}

\* the lambda of crossover_multipoint_avg
multipoint_avg_handler(p1, g1, p2, g2) ==
    {[g1 EXCEPT !.weight = Fraction(g1.weight + g2.weight, 2)]}

matching_genes_handler(variant, p1, g1, p2, g2) ==
    IF variant = "crossover_multipoint_best"
    THEN multipoint_best_handler(p1, g1, p2, g2)
    ELSE IF variant = "crossover_multipoint_rnd"
    THEN multipoint_rnd_handler(p1, g1, p2, g2)
    ELSE multipoint_avg_handler(p1, g1, p2, g2)

\* position in genes of the gene with the innovation number, 0 if none
gene_with_innov_num(genes, innov_num) ==
    FirstOf({k \in DOMAIN genes : genes[k].innov_num = innov_num})

\* the enable flag of an inherited gene: a gene disabled in a parent is
\* disabled or, by the draws of p_inherit_disabled and p_reenable, enabled;
\* a gene enabled in the parents is enabled
inherited(g, enabled_in_parents) ==
    IF enabled_in_parents
    THEN {[g EXCEPT !.enabled = TRUE]}
    ELSE {[g EXCEPT !.enabled = TRUE], [g EXCEPT !.enabled = FALSE]}

\* the genes of p1 from position i on: a gene that p2 matches goes through
\* the handler, a gene of p1 alone is inherited unless p2 is fitter
RECURSIVE inherit_from_first(_, _, _, _, _)
inherit_from_first(variant, p1, p2, i, child) ==
    IF i > Len(p1.genes)
    THEN {child}
    ELSE LET g1 == p1.genes[i]
             j == gene_with_innov_num(p2.genes, g1.innov_num)
             emitted ==
                 IF j # 0
                 THEN UNION {inherited(g, g1.enabled /\ p2.genes[j].enabled) :
                                g \in matching_genes_handler(
                                          variant, p1, g1, p2, p2.genes[j])}
                 ELSE IF p1.fitness >= p2.fitness
                 THEN inherited(copied_gene(g1), g1.enabled)
                 ELSE {}
         IN  IF emitted = {}
             THEN inherit_from_first(variant, p1, p2, i + 1, child)
             ELSE UNION {inherit_from_first(variant, p1, p2, i + 1,
                                            add_gene(child, e)) :
                            e \in emitted}

\* the genes of p2 alone from position j on, inherited unless p1 is fitter
RECURSIVE inherit_from_second(_, _, _, _)
inherit_from_second(p1, p2, j, child) ==
    IF j > Len(p2.genes)
    THEN {child}
    ELSE LET g2 == p2.genes[j]
         IN  IF gene_with_innov_num(p1.genes, g2.innov_num) # 0
                \/ p1.fitness > p2.fitness
             THEN inherit_from_second(p1, p2, j + 1, child)
             ELSE UNION {inherit_from_second(p1, p2, j + 1,
                                             add_gene(child, e)) :
                            e \in inherited(copied_gene(g2), g2.enabled)}

\* helper_crossover_multipoint(other, matching_genes_handler): the offspring
\* is a new genome to which the inherited genes are added
helper_crossover_multipoint(this, other, variant) ==
    UNION {inherit_from_second(this, other, 1, child) :
              child \in inherit_from_first(variant, this, other, 1,
                                           NewGenome)}

\* params.crossover_multipoint_*_weight
crossover_weights == [multipoint_avg |-> 1, multipoint_best |-> 1,
                      multipoint_rnd |-> 1]

sum_all_crossover_weights ==
    crossover_weights.multipoint_avg + crossover_weights.multipoint_best
    + crossover_weights.multipoint_rnd

\* the variant random_crossover calls for the value drawn
crossover_selector(rnd_val) ==
    IF rnd_val < crossover_weights.multipoint_avg
    THEN "crossover_multipoint_avg"
    ELSE IF rnd_val - crossover_weights.multipoint_avg
               < crossover_weights.multipoint_best
    THEN "crossover_multipoint_best"
    ELSE "crossover_multipoint_rnd"

\* this.random_crossover(other): the variant called and the genome returned
random_crossover(this, other) ==
    UNION { {[variant |-> crossover_selector(rnd_val), p1 |-> this,
              p2 |-> other, genome |-> child] :
                child \in helper_crossover_multipoint(
                              this, other, crossover_selector(rnd_val))}
          : rnd_val \in 0..(sum_all_crossover_weights - 1) }

\* ------------------------------------------------------------------------
\* Speciation.
\* ------------------------------------------------------------------------

\* species(neat, pop, id, representant) and species::add_member
NewSpecies(id, representant) ==
    [id |-> id, representant |-> representant, members |-> << >>]

add_member(spec, geno_id) == [spec EXCEPT !.members = Append(@, geno_id)]

\* a search that finds no species
find_appropriate_species_for_none(species_list, geno) == 0

\* index of the species found, 0 for an empty optional
find_appropriate_species_for(species_list, geno) ==
    FirstOf({i \in DOMAIN species_list :
                is_compatible_with(geno, species_list[i].representant)})

\* sp is [all_species, next_species_id]; geno_id counts from 0
helper_speciate_one_genome(sp, pop, geno_id) ==
    LET geno == pop[geno_id + 1]
        opt_species == find_appropriate_species_for(sp.all_species, geno)
    IN  IF opt_species # 0
        THEN [sp EXCEPT !.all_species[opt_species] = add_member(@, geno_id)]
        ELSE [all_species |->
                  Append(sp.all_species,
                         add_member(NewSpecies(sp.next_species_id, geno),
                                    geno_id)),
              next_species_id |-> sp.next_species_id + 1]

RECURSIVE speciate_from(_, _, _)
speciate_from(sp, pop, geno_id) ==
    IF geno_id >= Len(pop)
    THEN sp
    ELSE speciate_from(helper_speciate_one_genome(sp, pop, geno_id),
                       pop, geno_id + 1)

helper_speciate_all_population(sp, pop) == speciate_from(sp, pop, 0)

\* ------------------------------------------------------------------------
\* init().
\* ------------------------------------------------------------------------

\* the two loops of init(): bias -> output links, then input -> output links
RECURSIVE bias_links(_, _, _)
bias_links(gp, starting_idx_outputs, i) ==
    IF i >= NumOutputs
    THEN gp
    ELSE bias_links(
             [genome |-> add_gene(gp.genome,
                                  Gene3(gp.pool.next_innovation, BIAS_ID,
                                        starting_idx_outputs + i)),
              pool |-> after_next_innovation(gp.pool)],
             starting_idx_outputs, i + 1)

RECURSIVE input_links(_, _, _, _)
input_links(gp, starting_idx_outputs, j, i) ==
    IF j >= NumInputs
    THEN gp
    ELSE IF i >= NumOutputs
    THEN input_links(gp, starting_idx_outputs, j + 1, 0)
    ELSE input_links(
             [genome |-> add_gene(gp.genome,
                                  Gene3(gp.pool.next_innovation, j + 1,
                                        starting_idx_outputs + i)),
              pool |-> after_next_innovation(gp.pool)],
             starting_idx_outputs, j, i + 1)

\* a seed genome with the links from the bias only
initial_genome_bias_only(pool) ==
    bias_links([genome |-> NewGenome, pool |-> pool], 1 + NumInputs, 0)

\* the genome init() builds before it hands it to init(const genome&)
initial_genome(pool) ==
    LET starting_idx_outputs == 1 + NumInputs
        gp0 == [genome |-> NewGenome, pool |-> pool]
    IN  input_links(bias_links(gp0, starting_idx_outputs, 0),
                    starting_idx_outputs, 0, 0)

\* the population loop of init(const genome&): n more genomes are added,
\* each a get_random_mutation of the initial genome
RECURSIVE populate(_, _, _)
populate(seed, acc, n) ==
    IF n = 0
    THEN {acc}
    ELSE UNION { populate(seed,
                          [population |-> Append(acc.population, r.genome),
                           pool |-> r.pool,
                           events |-> acc.events
                                      \cup {[i |-> Len(acc.population) + 1,
                                              ev |-> r.ev]}],
                          n - 1)
                 : r \in get_random_mutation(seed, acc.pool) }

\* ------------------------------------------------------------------------
\* State.
\* ------------------------------------------------------------------------

VARIABLES
    phase,                    \* "failed" when the constructor has thrown,
                              \*   "constructed" until init() has run, then
                              \*   "running"; "crashed" when the process ended
    params,                   \* base_neat::params
    population,               \* the genomes of the population, genome id + 1 -> genome
    innov_pool,               \* base_neat::innov_pool
    all_species,              \* base_neat::m_all_species
    next_species_id,          \* base_neat::m_next_species_id
    best_genome_ever,         \* base_neat::m_best_genome_ever, << >> for nullptr
    age_of_best_genome_ever,  \* base_neat::m_age_of_best_genome_ever
    best_genomes_library,     \* base_neat::m_best_genomes_library
    last_crossover,           \* the genome the last crossover returned, with
                              \*   its variant and its parents; << >> at first
    saved_stream,             \* what the last helper_serialize_base_neat has
                              \*   written; << >> at first
    log,                      \* history: the structural changes made so far,
                              \*   each with the position i of its genome
    last,                     \* history: the operation of the last step
    steps                     \* history: operations applied since init()

vars == <<phase, params, population, innov_pool, all_species, next_species_id,
          best_genome_ever, age_of_best_genome_ever, best_genomes_library,
          last_crossover, saved_stream, log, last, steps>>

\* the values held outside the driver
outside_vars == <<last_crossover, saved_stream>>

driver_vars == <<params, all_species, next_species_id, best_genome_ever,
                 age_of_best_genome_ever, best_genomes_library>>

Last(op, i, ok, ev, calls) ==
    [op |-> op, i |-> i, ok |-> ok, ev |-> ev, calls |-> calls]

Parameters(inputs, outputs, library_max_size) ==
    [number_of_inputs |-> inputs, number_of_outputs |-> outputs,
     best_genomes_library_max_size |-> library_max_size]

\* a test that lets through parameters with one of the two counts at 0
invalid_parameters_both(p) ==
    p.number_of_outputs = 0 /\ p.number_of_inputs = 0

\* the test of the constructor that throws std::invalid_argument
invalid_parameters(p) ==
    p.number_of_outputs = 0 \/ p.number_of_inputs = 0

\* base_neat::base_neat(params_): the members as the initialiser list leaves
\* them; the exception leaves no driver behind
base_neat(params_) ==
    /\ params = params_
    /\ phase = IF invalid_parameters(params_) THEN "failed" ELSE "constructed"
    /\ population = << >>
    /\ innov_pool = NewPool
    /\ all_species = << >>
    /\ next_species_id = 0
    /\ best_genome_ever = << >>
    /\ age_of_best_genome_ever = 0
    /\ best_genomes_library = << >>
    /\ last_crossover = << >>
    /\ saved_stream = << >>
    /\ log = {}
    /\ last = Last("base_neat", 0, TRUE, NoEvent, 0)
    /\ steps = 0

\* the driver is constructed with the modelled counts of inputs and outputs,
\* or with 0 for either of them
Init ==
    \E inputs \in {0, NumInputs}, outputs \in {0, NumOutputs} :
        base_neat(Parameters(inputs, outputs, best_genomes_library_max_size))

\* base_neat::init(): the seed genome, the population, the speciation
init ==
    /\ phase = "constructed"
    /\ LET seed == initial_genome(innov_pool)
       IN  \E filled \in populate(seed.genome,
                                  [population |-> population, pool |-> seed.pool,
                                   events |-> {}],
                                  PopSize) :
              LET sp == helper_speciate_all_population(
                            [all_species |-> all_species,
                             next_species_id |-> next_species_id],
                            filled.population)
              IN  /\ population' = filled.population
                  /\ innov_pool' = filled.pool
                  /\ all_species' = sp.all_species
                  /\ next_species_id' = sp.next_species_id
                  /\ log' = log \cup {e \in filled.events : e.ev # NoEvent}
                  /\ last' = Last("init", 0, TRUE, NoEvent, 0)
    /\ best_genome_ever' = << >>
    /\ age_of_best_genome_ever' = 0
    /\ phase' = "running"
    /\ UNCHANGED <<params, best_genomes_library, outside_vars, steps>>

\* the population may be operated on: init() has run and fewer than limit
\* operations have been applied since
CanStep(limit) == phase = "running" /\ steps < limit

\* result r of operation op, called on genome i, is stored as genome j
Store(op, i, j, r, calls) ==
    /\ population' = [population EXCEPT ![j] = r.genome]
    /\ innov_pool' = r.pool
    /\ log' = log \cup {e \in {[i |-> j, ev |-> r.ev]} : e.ev # NoEvent}
    /\ last' = Last(op, i, r.ok, r.ev, calls)
    /\ steps' = steps + 1
    /\ UNCHANGED <<phase, driver_vars, outside_vars>>

do_mutate_add_link(i) ==
    /\ CanStep(MaxSteps)
    /\ \E r \in mutate_add_link(population[i], innov_pool) :
          Store("mutate_add_link", i, i, r, 0)

do_mutate_add_neuron(i) ==
    /\ CanStep(MaxSteps)
    /\ \E r \in mutate_add_neuron(population[i], innov_pool) :
          Store("mutate_add_neuron", i, i, r, 0)

do_mutate_all_weights(i) ==
    /\ CanStep(MaxSteps)
    /\ \E r \in mutate_all_weights(population[i], innov_pool) :
          Store("mutate_all_weights", i, i, r, 0)

do_mutate_one_weight(i) ==
    /\ CanStep(MaxSteps)
    /\ \E r \in mutate_one_weight(population[i], innov_pool) :
          Store("mutate_one_weight", i, i, r, 0)

do_mutate_reset_weights(i) ==
    /\ CanStep(MaxSteps)
    /\ \E r \in mutate_reset_weights(population[i], innov_pool) :
          Store("mutate_reset_weights", i, i, r, 0)

do_mutate_remove_gene(i) ==
    /\ CanStep(MaxSteps)
    /\ \E r \in mutate_remove_gene(population[i], innov_pool) :
          Store("mutate_remove_gene", i, i, r, 0)

do_mutate_reenable_gene(i) ==
    /\ CanStep(MaxSteps)
    /\ \E r \in mutate_reenable_gene(population[i], innov_pool) :
          Store("mutate_reenable_gene", i, i, r, 0)

do_mutate_toggle_enable(i) ==
    /\ CanStep(MaxSteps)
    /\ \E r \in mutate_toggle_enable(population[i], innov_pool) :
          Store("mutate_toggle_enable", i, i, r, 0)

\* population[j] = population[i].get_random_mutation()
do_get_random_mutation(i, j) ==
    /\ CanStep(MaxSteps)
    /\ \E r \in get_random_mutation(population[i], innov_pool) :
          Store("get_random_mutation", i, j, r, r.calls)

Next ==
    \/ init
    \/ \E i \in 1..PopSize : do_mutate_add_link(i)
    \/ \E i \in 1..PopSize : do_mutate_add_neuron(i)
    \/ \E i \in 1..PopSize : do_mutate_all_weights(i)
    \/ \E i \in 1..PopSize : do_mutate_one_weight(i)
    \/ \E i \in 1..PopSize : do_mutate_reset_weights(i)
    \/ \E i \in 1..PopSize : do_mutate_remove_gene(i)
    \/ \E i \in 1..PopSize : do_mutate_reenable_gene(i)
    \/ \E i \in 1..PopSize : do_mutate_toggle_enable(i)
    \/ \E i \in 1..PopSize : do_get_random_mutation(i, i)

Spec == Init /\ [][Next]_vars

\* The operators that change which genes a genome holds or which of them are
\* enabled, applied for more steps.
structural_add_neuron(i) ==
    /\ CanStep(MaxStructuralSteps)
    /\ \E r \in mutate_add_neuron(population[i], innov_pool) :
          Store("mutate_add_neuron", i, i, r, 0)

structural_remove_gene(i) ==
    /\ CanStep(MaxStructuralSteps)
    /\ \E r \in mutate_remove_gene(population[i], innov_pool) :
          Store("mutate_remove_gene", i, i, r, 0)

structural_reenable_gene(i) ==
    /\ CanStep(MaxStructuralSteps)
    /\ \E r \in mutate_reenable_gene(population[i], innov_pool) :
          Store("mutate_reenable_gene", i, i, r, 0)

NextStructural ==
    \/ init
    \/ \E i \in 1..PopSize : structural_add_neuron(i)
    \/ \E i \in 1..PopSize : structural_remove_gene(i)
    \/ \E i \in 1..PopSize : structural_reenable_gene(i)

SpecStructural == Init /\ [][NextStructural]_vars

\* positions of the member lists that hold geno_id
Memberships(species_list, geno_id) ==
    {kp \in UNION {{k} \X DOMAIN species_list[k].members :
                      k \in DOMAIN species_list} :
        species_list[kp[1]].members[kp[2]] = geno_id}

\* helper_speciate_one_genome(i - 1), as a derived driver calls it once the
\* operators have been applied to the genomes; each genome is handed over
\* once more after init()
speciate_one_genome(i) ==
    /\ phase = "running" /\ steps = MaxStructuralSteps
    /\ Cardinality(Memberships(all_species, i - 1)) = 1
    /\ LET sp == helper_speciate_one_genome(
                     [all_species |-> all_species,
                      next_species_id |-> next_species_id],
                     population, i - 1)
       IN  /\ all_species' = sp.all_species
           /\ next_species_id' = sp.next_species_id
    /\ last' = Last("helper_speciate_one_genome", i, TRUE, NoEvent, 0)
    /\ UNCHANGED <<phase, params, population, innov_pool, best_genome_ever,
                   outside_vars,
                   age_of_best_genome_ever, best_genomes_library, log, steps>>

NextSpeciate ==
    \/ init
    \/ \E i \in 1..PopSize : structural_add_neuron(i)
    \/ \E i \in 1..PopSize : structural_remove_gene(i)
    \/ \E i \in 1..PopSize : speciate_one_genome(i)

SpecSpeciate == Init /\ [][NextSpeciate]_vars

\* ------------------------------------------------------------------------
\* The driver's generation loop: fitness values, champion, best genome ever,
\* library of best genomes.
\* ------------------------------------------------------------------------

\* -1 * std::numeric_limits<double>::max(), the lowest value a fitness can take
lowest_double == -2

\* the fitness values the evaluator hands out
FitnessValues == {lowest_double, -1, 0, 1}

\* the loop of get_current_best_genome from genome k on; champion is the
\* position of the genome pointed to, 0 for nullptr
RECURSIVE champion_scan(_, _, _, _)
champion_scan(genomes, k, champion, best_fitness_so_far) ==
    IF k > Len(genomes)
    THEN champion
    ELSE IF genomes[k].fitness > best_fitness_so_far
    THEN champion_scan(genomes, k + 1, k, genomes[k].fitness)
    ELSE champion_scan(genomes, k + 1, champion, best_fitness_so_far)

\* *champion when champion is nullptr: the behaviour is undefined; the process
\* ends, or the reference is bound to memory that holds no genome of the
\* population and is read as a genome of any fitness
null_genome_reference ==
    {[crash |-> TRUE, champion |-> 0, genome |-> << >>]}
    \cup {[crash |-> FALSE, champion |-> 0,
           genome |-> [genes |-> << >>, known_neuron_ids |-> << >>,
                       fitness |-> f]] : f \in FitnessValues}

get_current_best_genome(genomes) ==
    LET champion == champion_scan(genomes, 1, 0, lowest_double)
    IN  IF champion = 0
        THEN null_genome_reference
        ELSE {[crash |-> FALSE, champion |-> champion,
               genome |-> genomes[champion]]}

\* the members of the driver that an epoch works on; crash tells that the
\* process has ended
Driver ==
    [best_genome_ever |-> best_genome_ever,
     age_of_best_genome_ever |-> age_of_best_genome_ever,
     best_genomes_library |-> best_genomes_library,
     crash |-> FALSE]

\* m_best_genome_ever = new genome{geno}; m_age_of_best_genome_ever = 0
store_best_genome_ever(d, geno) ==
    [d EXCEPT !.best_genome_ever = geno, !.age_of_best_genome_ever = 0]

update_best_genome_ever(d, genomes) ==
    { IF c.crash
      THEN [d EXCEPT !.crash = TRUE]
      ELSE IF d.best_genome_ever = << >>
      THEN store_best_genome_ever(d, c.genome)
      ELSE IF c.genome.fitness > d.best_genome_ever.fitness
      THEN store_best_genome_ever(d, c.genome)
      ELSE d
    : c \in get_current_best_genome(genomes) }

\* genome::operator==: the two genomes hold the same genes
genome_equal(a, b) == a.genes = b.genes

\* std::min_element by fitness: the position of the first member of lowest
\* fitness, 0 for the end iterator of an empty library
min_element(library) ==
    FirstOf({k \in DOMAIN library :
                \A j \in DOMAIN library :
                   ~(library[j].fitness < library[k].fitness)})

\* the else branch of m_best_genomes_library.size() < max_size
library_is_full(d, max_size) == ~(Len(d.best_genomes_library) < max_size)

\* worst->get_fitness() when worst is the end iterator of an empty vector: the
\* behaviour is undefined; the process ends, or memory past the vector is
\* read, and possibly assigned to, and the vector keeps its size
end_iterator_dereference(d) == {[d EXCEPT !.crash = TRUE], d}

helper_update_best_genomes_library_with(d, geno, max_size) ==
    LET library == d.best_genomes_library
        worst == min_element(library)
    IN  IF \E k \in DOMAIN library : genome_equal(library[k], geno)
        THEN {d}
        ELSE IF ~library_is_full(d, max_size)
        THEN {[d EXCEPT !.best_genomes_library = Append(library, geno)]}
        ELSE IF worst = 0
        THEN end_iterator_dereference(d)
        ELSE IF library[worst].fitness < geno.fitness
        THEN {[d EXCEPT !.best_genomes_library[worst] = geno]}
        ELSE {d}

\* impl_epoch as far as it concerns the best genomes: the best genome ever is
\* updated, then the champion is offered to the library
impl_epoch(d, genomes, max_size) ==
    UNION { IF d1.crash
            THEN {d1}
            ELSE UNION { IF c.crash
                         THEN {[d1 EXCEPT !.crash = TRUE]}
                         ELSE helper_update_best_genomes_library_with(
                                  d1, c.genome, max_size)
                       : c \in get_current_best_genome(genomes) }
          : d1 \in update_best_genome_ever(d, genomes) }

\* the driver's members become those of d; a process that has ended takes no
\* further step
StoreDriver(op, d) ==
    /\ best_genome_ever' = d.best_genome_ever
    /\ age_of_best_genome_ever' = d.age_of_best_genome_ever
    /\ best_genomes_library' = d.best_genomes_library
    /\ phase' = IF d.crash THEN "crashed" ELSE phase
    /\ last' = Last(op, 0, ~d.crash, NoEvent, 0)
    /\ steps' = steps + 1
    /\ UNCHANGED <<params, population, innov_pool, all_species, outside_vars,
                   next_species_id, log>>

\* the evaluator sets the fitness of every genome of the generation
evaluate ==
    /\ phase = "running"
    /\ \E f \in [DOMAIN population -> FitnessValues] :
          population' = [i \in DOMAIN population |->
                            [population[i] EXCEPT !.fitness = f[i]]]
    /\ last' = Last("evaluate", 0, TRUE, NoEvent, 0)
    /\ UNCHANGED <<phase, driver_vars, outside_vars, innov_pool, log, steps>>

\* base_neat::epoch(): impl_epoch(), then ++m_age_of_best_genome_ever
epoch ==
    /\ CanStep(MaxEpochs)
    /\ \E d \in impl_epoch(Driver, population,
                            params.best_genomes_library_max_size) :
          StoreDriver("epoch",
                      IF d.crash
                      THEN d
                      ELSE [d EXCEPT !.age_of_best_genome_ever = @ + 1])

\* helper_update_best_genomes_library_with(population[i])
update_best_genomes_library(i) ==
    /\ CanStep(MaxLibraryCalls)
    /\ \E d \in helper_update_best_genomes_library_with(
                    Driver, population[i],
                    params.best_genomes_library_max_size) :
          StoreDriver("helper_update_best_genomes_library_with", d)

\* the driver is constructed with a library of any of the modelled sizes
InitLibrary ==
    \E library_max_size \in 0..MaxLibrarySize :
        base_neat(Parameters(NumInputs, NumOutputs, library_max_size))

NextLibrary ==
    \/ init
    \/ evaluate
    \/ \E i \in 1..PopSize : update_best_genomes_library(i)

SpecLibrary == InitLibrary /\ [][NextLibrary]_vars

\* ------------------------------------------------------------------------
\* Serialisation: the stream is the sequence of the values appended to it.
\* ------------------------------------------------------------------------

\* the stream after its first n values have been read
Drop(stream, n) == SubSeq(stream, n + 1, Len(stream))

bool_token(b) == IF b THEN 1 ELSE 0

token_bool(t) == t # 0

kind_token(kind) == IF kind = NEW_LINK THEN 0 ELSE 1

token_kind(t) == IF t = 0 THEN NEW_LINK ELSE NEW_NEURON

put_gene(g) ==
    <<g.innov_num, g.from, g.to, g.weight, bool_token(g.enabled)>>

get_gene(stream) ==
    [innov_num |-> stream[1], from |-> stream[2], to |-> stream[3],
     weight |-> stream[4], enabled |-> token_bool(stream[5])]

RECURSIVE put_genes(_, _)
put_genes(genes, k) ==
    IF k > Len(genes)
    THEN << >>
    ELSE put_gene(genes[k]) \o put_genes(genes, k + 1)

\* ser << genome: inputs, outputs, fitness, gene count, the genes
put_genome(g) ==
    <<NumInputs, NumOutputs, g.fitness, Len(g.genes)>> \o put_genes(g.genes, 1)

\* n genes are read and added to g
RECURSIVE get_genes(_, _, _)
get_genes(g, stream, n) ==
    IF n = 0
    THEN [value |-> g, rest |-> stream]
    ELSE get_genes(add_gene(g, get_gene(stream)), Drop(stream, 5), n - 1)

\* des >> genome, into a genome constructed by genome(this)
get_genome(stream) ==
    get_genes([NewGenome EXCEPT !.fitness = stream[3]],
              Drop(stream, 4), stream[4])

\* genome(genome&&): the genes and the known neurons are moved, m_fitness is
\* initialised to 0
moved(g) == [g EXCEPT !.fitness = 0]

\* ser << species: id, members, representant
put_species(sp) ==
    <<sp.id, Len(sp.members)>> \o sp.members \o put_genome(sp.representant)

get_species(stream) ==
    LET n == stream[2]
        r == get_genome(Drop(stream, 2 + n))
    IN  [value |-> [id |-> stream[1], representant |-> r.value,
                    members |-> SubSeq(stream, 3, 2 + n)],
         rest |-> r.rest]

RECURSIVE put_species_list(_, _)
put_species_list(list, k) ==
    IF k > Len(list)
    THEN << >>
    ELSE put_species(list[k]) \o put_species_list(list, k + 1)

\* the loop that reads n species and pushes each onto m_all_species
RECURSIVE get_species_list(_, _, _)
get_species_list(list, stream, n) ==
    IF n = 0
    THEN [value |-> list, rest |-> stream]
    ELSE LET r == get_species(stream)
         IN  get_species_list(Append(list, r.value), r.rest, n - 1)

RECURSIVE put_genomes(_, _)
put_genomes(list, k) ==
    IF k > Len(list)
    THEN << >>
    ELSE put_genome(list[k]) \o put_genomes(list, k + 1)

\* the loop that reads n genomes and pushes each, moved, onto the library
RECURSIVE get_library(_, _, _)
get_library(list, stream, n) ==
    IF n = 0
    THEN [value |-> list, rest |-> stream]
    ELSE LET r == get_genome(stream)
         IN  get_library(Append(list, moved(r.value)), r.rest, n - 1)

put_innovation(rec) ==
    <<kind_token(rec.kind), rec.innov_num, rec.innov_num_2, rec.from, rec.to,
      rec.new_neuron_id>>

get_innovation(stream) ==
    [kind |-> token_kind(stream[1]), innov_num |-> stream[2],
     innov_num_2 |-> stream[3], from |-> stream[4], to |-> stream[5],
     new_neuron_id |-> stream[6]]

RECURSIVE put_innovations(_, _)
put_innovations(list, k) ==
    IF k > Len(list)
    THEN << >>
    ELSE put_innovation(list[k]) \o put_innovations(list, k + 1)

\* ser << innov_pool: the counters, the gene registry, the innovation registry
put_pool(pool) ==
    <<pool.next_innovation, pool.next_hidden_neuron_id, Len(pool.all_genes)>>
    \o put_genes(pool.all_genes, 1)
    \o <<Len(pool.all_innovations)>>
    \o put_innovations(pool.all_innovations, 1)

\* des >> innov_pool
get_pool(stream) ==
    LET ng == stream[3]
        s1 == Drop(stream, 3)
        s2 == Drop(s1, 5 * ng)
        ni == s2[1]
        s3 == Drop(s2, 1)
    IN  [value |->
            [next_innovation |-> stream[1],
             next_hidden_neuron_id |-> stream[2],
             all_genes |-> [k \in 1..ng |-> get_gene(Drop(s1, 5 * (k - 1)))],
             all_innovations |->
                [k \in 1..ni |-> get_innovation(Drop(s3, 6 * (k - 1)))]],
         rest |-> Drop(s3, 6 * ni)]

\* the members of the driver that are written to the stream
Members ==
    [next_species_id |-> next_species_id,
     age_of_best_genome_ever |-> age_of_best_genome_ever,
     best_genome_ever |-> best_genome_ever,
     all_species |-> all_species,
     best_genomes_library |-> best_genomes_library,
     innov_pool |-> innov_pool]

\* the members of a driver that has just been constructed
FreshMembers ==
    [next_species_id |-> 0,
     age_of_best_genome_ever |-> 0,
     best_genome_ever |-> << >>,
     all_species |-> << >>,
     best_genomes_library |-> << >>,
     innov_pool |-> NewPool]

helper_serialize_base_neat(m) ==
    <<m.next_species_id, m.age_of_best_genome_ever, compatibility_threshold>>
    \o (IF m.best_genome_ever = << >>
        THEN <<bool_token(FALSE)>>
        ELSE <<bool_token(TRUE)>> \o put_genome(m.best_genome_ever))
    \o <<Len(m.all_species)>> \o put_species_list(m.all_species, 1)
    \o <<Len(m.best_genomes_library)>>
    \o put_genomes(m.best_genomes_library, 1)
    \o put_pool(m.innov_pool)

\* the driver m reads the stream; dynamic_compatibility_threshold is off, so
\* the threshold read is dropped
helper_deserialize_base_neat(m, stream) ==
    LET has_best_genome_ever == token_bool(stream[4])
        s1 == Drop(stream, 4)
        best_g == get_genome(s1)
        best == IF has_best_genome_ever
                THEN moved(best_g.value)
                ELSE m.best_genome_ever
        s2 == IF has_best_genome_ever THEN best_g.rest ELSE s1
        species_read == get_species_list(<< >>, Drop(s2, 1), s2[1])
        s3 == species_read.rest
        library_read == get_library(<< >>, Drop(s3, 1), s3[1])
        pool_read == get_pool(library_read.rest)
    IN  [next_species_id |-> stream[1],
         age_of_best_genome_ever |-> stream[2],
         best_genome_ever |-> best,
         all_species |-> species_read.value,
         best_genomes_library |-> library_read.value,
         innov_pool |-> pool_read.value]

\* the driver is serialised and a driver constructed with the same parameters
\* deserialises the stream and takes its place
reload ==
    /\ CanStep(MaxEpochs)
    /\ LET m == helper_deserialize_base_neat(
                    FreshMembers, helper_serialize_base_neat(Members))
       IN  /\ next_species_id' = m.next_species_id
           /\ age_of_best_genome_ever' = m.age_of_best_genome_ever
           /\ best_genome_ever' = m.best_genome_ever
           /\ all_species' = m.all_species
           /\ best_genomes_library' = m.best_genomes_library
           /\ innov_pool' = m.innov_pool
    /\ last' = Last("reload", 0, TRUE, NoEvent, 0)
    /\ steps' = steps + 1
    /\ UNCHANGED <<phase, params, population, outside_vars, log>>

NextEpoch ==
    \/ init
    \/ reload
    \/ evaluate
    \/ epoch

SpecEpoch == Init /\ [][NextEpoch]_vars

\* helper_serialize_base_neat(ser): the stream written is kept
save ==
    /\ phase = "running"
    /\ saved_stream' = helper_serialize_base_neat(Members)
    /\ last' = Last("helper_serialize_base_neat", 0, TRUE, NoEvent, 0)
    /\ UNCHANGED <<phase, params, population, innov_pool, driver_vars,
                   last_crossover, log, steps>>

\* helper_deserialize_base_neat(des): the driver reads the stream kept
load ==
    /\ CanStep(MaxEpochs)
    /\ saved_stream # << >>
    /\ LET m == helper_deserialize_base_neat(Members, saved_stream)
       IN  /\ next_species_id' = m.next_species_id
           /\ age_of_best_genome_ever' = m.age_of_best_genome_ever
           /\ best_genome_ever' = m.best_genome_ever
           /\ all_species' = m.all_species
           /\ best_genomes_library' = m.best_genomes_library
           /\ innov_pool' = m.innov_pool
    /\ last' = Last("helper_deserialize_base_neat", 0, TRUE, NoEvent, 0)
    /\ steps' = steps + 1
    /\ UNCHANGED <<phase, params, population, outside_vars, log>>

NextSave ==
    \/ init
    \/ epoch
    \/ save
    \/ load

SpecSave == Init /\ [][NextSave]_vars

\* new genome{*other.m_best_genome_ever}: the copy of the genome pointed to;
\* when other.m_best_genome_ever is nullptr the behaviour is undefined, as in
\* null_genome_reference
copy_of_best_genome_ever(other) ==
    IF other.best_genome_ever = << >>
    THEN null_genome_reference
    ELSE {[crash |-> FALSE, champion |-> 0,
           genome |-> other.best_genome_ever]}

\* base_neat(const base_neat& other): the members of the copy
base_neat_copy(other) ==
    { IF c.crash
      THEN [other EXCEPT !.crash = TRUE]
      ELSE [other EXCEPT !.best_genome_ever = c.genome]
    : c \in copy_of_best_genome_ever(other) }

\* a driver is copy-constructed from the driver and takes its place
copy_construct ==
    /\ CanStep(MaxEpochs)
    /\ \E d \in base_neat_copy(Driver) :
          StoreDriver("base_neat(const base_neat&)", d)

NextCopy ==
    \/ init
    \/ evaluate
    \/ epoch
    \/ copy_construct

SpecCopy == Init /\ [][NextCopy]_vars

\* population[i].random_crossover(population[j]); the genome returned is kept
\* outside the population
do_random_crossover(i, j) ==
    /\ phase = "running"
    /\ \E r \in random_crossover(population[i], population[j]) :
          last_crossover' = r
    /\ last' = Last("random_crossover", i, TRUE, NoEvent, 0)
    /\ UNCHANGED <<phase, params, population, innov_pool, driver_vars,
                   saved_stream, log, steps>>

\* the fitnesses the evaluator hands out before a crossover: two genomes are
\* of equal fitness or one is the fitter
CrossoverFitnessValues == {0, 1}

evaluate_parents ==
    /\ phase = "running"
    /\ \E f \in [DOMAIN population -> CrossoverFitnessValues] :
          population' = [i \in DOMAIN population |->
                            [population[i] EXCEPT !.fitness = f[i]]]
    /\ last' = Last("evaluate", 0, TRUE, NoEvent, 0)
    /\ UNCHANGED <<phase, driver_vars, outside_vars, innov_pool, log, steps>>

\* The genomes that init() has mutated are evaluated and two of them are
\* crossed.
NextCrossover ==
    \/ init
    \/ evaluate_parents
    \/ \E i \in 1..PopSize : \E j \in (1..PopSize) \ {i} :
          do_random_crossover(i, j)

SpecCrossover == Init /\ [][NextCrossover]_vars

\* ------------------------------------------------------------------------
\* Properties.
\* ------------------------------------------------------------------------

Genomes == {population[i] : i \in DOMAIN population}

InnovNums(g) == {g.genes[k].innov_num : k \in DOMAIN g.genes}

Endpoints(g) ==
    {g.genes[k].from : k \in DOMAIN g.genes}
    \cup {g.genes[k].to : k \in DOMAIN g.genes}

LinkEvents == {e \in log : e.ev.kind = NEW_LINK}

NeuronEvents == {e \in log : e.ev.kind = NEW_NEURON}

SamePair(e1, e2) == e1.ev.from = e2.ev.from /\ e1.ev.to = e2.ev.to

\* C1: whenever mutate_add_link has succeeded for the same directed pair
\* (from, to), in the same or in different genomes and whatever happened in
\* between, the genes it added carry the same innovation number.
C1_AddLinkSameInnovation ==
    \A e1 \in LinkEvents, e2 \in LinkEvents :
        SamePair(e1, e2) => e1.ev.innov_num = e2.ev.innov_num

\* two different genomes have had the same link added, the second one by a
\* call of mutate_add_link that found the pool's gene
C1_Witness ==
    /\ last.op = "mutate_add_link"
    /\ last.ok
    /\ last.ev.reused
    /\ \E e1 \in LinkEvents, e2 \in LinkEvents :
          /\ e1.i # e2.i
          /\ SamePair(e1, e2)
          /\ e2.i = last.i
          /\ e2.ev = last.ev

\* C2: every gene of every genome has a canonical entry for its (from, to)
\* pair in the gene registry of the pool, with the same innovation number.
C2_EveryGeneRegistered ==
    \A g \in Genomes : \A k \in DOMAIN g.genes :
        LET idx == find_gene(innov_pool, g.genes[k].from, g.genes[k].to)
        IN  /\ idx # 0
            /\ innov_pool.all_genes[idx].innov_num = g.genes[k].innov_num

\* C3: two successful mutate_add_neuron calls that split the same (from, to)
\* pair add genes with the same two innovation numbers and the same hidden
\* neuron id; splits of different pairs get different hidden neuron ids.
C3_AddNeuronSameInnovation ==
    \A e1 \in NeuronEvents, e2 \in NeuronEvents :
        /\ SamePair(e1, e2) =>
              /\ e1.ev.innov_num = e2.ev.innov_num
              /\ e1.ev.innov_num_2 = e2.ev.innov_num_2
              /\ e1.ev.new_neuron_id = e2.ev.new_neuron_id
        /\ ~SamePair(e1, e2) => e1.ev.new_neuron_id # e2.ev.new_neuron_id

\* two genomes have split the same pair, and another pair has been split too
C3_Witness ==
    /\ \E e1 \in NeuronEvents, e2 \in NeuronEvents :
          e1.i # e2.i /\ SamePair(e1, e2) /\ e2.ev.reused
    /\ \E e1 \in NeuronEvents, e2 \in NeuronEvents : ~SamePair(e1, e2)

\* C4: the gene list of every genome is sorted in increasing order of
\* innovation number.
C4_GenesSorted ==
    \A g \in Genomes : \A k \in 1..(Len(g.genes) - 1) :
        g.genes[k].innov_num <= g.genes[k + 1].innov_num

\* C5: no genome contains two genes with the same innovation number.
C5_NoDuplicateInnovation ==
    \A g \in Genomes : \A k1 \in DOMAIN g.genes, k2 \in DOMAIN g.genes :
        g.genes[k1].innov_num = g.genes[k2].innov_num => k1 = k2

\* C6: known_neurons of every genome contains the bias id, the input ids
\* 1..I, the output ids I+1..I+O and both endpoints of every gene.
C6_KnownNeuronsSuperset ==
    \A g \in Genomes :
        ({BIAS_ID} \cup (1..(NumInputs + NumOutputs)) \cup Endpoints(g))
            \subseteq Range(g.known_neuron_ids)

\* a gene has just been removed from a genome that holds genes on a hidden
\* neuron, and one of its known neurons is no endpoint of any gene any more
C6_Witness ==
    /\ last.op = "mutate_remove_gene"
    /\ last.ok
    /\ LET g == population[last.i]
       IN  /\ \E n \in Endpoints(g) : n > NumInputs + NumOutputs
           /\ Range(g.known_neuron_ids) \ Endpoints(g) # {}

\* the hidden neuron ids in use anywhere before a step
AllocatedHidden ==
    {n \in UNION {Range(g.known_neuron_ids) : g \in Genomes} :
        n > NumInputs + NumOutputs}
    \cup {e.ev.new_neuron_id : e \in NeuronEvents}
    \cup {innov_pool.all_innovations[k].new_neuron_id :
             k \in {x \in DOMAIN innov_pool.all_innovations :
                       innov_pool.all_innovations[x].kind = NEW_NEURON}}

\* what a call of mutate_add_neuron on genome i has to satisfy
AddNeuronStep(i, ok, sel_idx) ==
    LET g == population[i]
        after == population'[i]
        n == Len(g.genes)
    IN  /\ ok <=> (\E k \in DOMAIN g.genes : g.genes[k].enabled)
        /\ (ok /\ find_innovation(innov_pool, NEW_NEURON, g.genes[sel_idx].from,
                                  g.genes[sel_idx].to) = 0) =>
              LET sel == g.genes[sel_idx]
                  h == after.genes[n + 1].to
              IN  /\ sel.enabled
                  /\ Len(after.genes) = n + 2
                  /\ \A k \in DOMAIN g.genes :
                        after.genes[k] =
                            IF k = sel_idx
                            THEN [sel EXCEPT !.enabled = FALSE]
                            ELSE g.genes[k]
                  /\ after.genes[n + 1].from = sel.from
                  /\ after.genes[n + 1].to = h
                  /\ after.genes[n + 2].from = h
                  /\ after.genes[n + 2].to = sel.to
                  /\ after.genes[n + 1].enabled
                  /\ after.genes[n + 2].enabled
                  /\ after.genes[n + 1].weight = sel.weight
                  /\ after.genes[n + 2].weight = sel.weight
                  /\ h > NumInputs + NumOutputs
                  /\ h \notin AllocatedHidden

MaxInnov(g) ==
    IF g.genes = << >>
    THEN -1
    ELSE CHOOSE m \in InnovNums(g) : \A x \in InnovNums(g) : x <= m

\* genes of a whose innovation number is greater than every one of b
ExcessOf(a, b) ==
    Cardinality({k \in DOMAIN a.genes : a.genes[k].innov_num > MaxInnov(b)})

\* genes of a that b does not hold, inside the range of b
DisjointOf(a, b) ==
    Cardinality({k \in DOMAIN a.genes :
                    /\ a.genes[k].innov_num \notin InnovNums(b)
                    /\ a.genes[k].innov_num <= MaxInnov(b)})

MatchingPairs(a, b) ==
    {p \in (DOMAIN a.genes) \X (DOMAIN b.genes) :
        a.genes[p[1]].innov_num = b.genes[p[2]].innov_num}

RECURSIVE SumWeightDifference(_, _, _)
SumWeightDifference(a, b, pairs) ==
    IF pairs = {}
    THEN 0
    ELSE LET p == CHOOSE x \in pairs : TRUE
         IN  Abs(a.genes[p[1]].weight - b.genes[p[2]].weight)
             + SumWeightDifference(a, b, pairs \ {p})

\* c1*E/N + c2*D/N + c3*W; W is taken as 0 when no gene matches
SpecDistance(a, b) ==
    LET N == Max(Len(a.genes), Len(b.genes))
        E == ExcessOf(a, b) + ExcessOf(b, a)
        D == DisjointOf(a, b) + DisjointOf(b, a)
        M == Cardinality(MatchingPairs(a, b))
        S == SumWeightDifference(a, b, MatchingPairs(a, b))
    IN  IF N <= 4
        THEN Fraction(0, 1)
        ELSE IF M = 0
        THEN Fraction(distance_coef_c1 * E + distance_coef_c2 * D, N)
        ELSE Fraction((distance_coef_c1 * E + distance_coef_c2 * D) * M
                          + distance_coef_c3 * S * N,
                      N * M)

\* C8: for all genomes A and B held after init and mutations, distance_to is 0
\* when N = max(|A.genes|, |B.genes|) <= 4 and c1*E/N + c2*D/N + c3*W
\* otherwise, E the genes beyond the other genome's maximum innovation number,
\* D the other genes held by one genome only, W the mean weight difference of
\* the genes with matching innovation numbers.
C8_DistanceIsFormula ==
    \A a \in Genomes, b \in Genomes :
        DoubleEq(distance_to(a, b), SpecDistance(a, b))

\* C9: for all genomes A and B held after init and mutations, A.distance_to(B)
\* equals B.distance_to(A), A.distance_to(A) equals 0, and
\* A.is_compatible_with(B) equals B.is_compatible_with(A).
C9_DistanceSymmetric ==
    \A a \in Genomes, b \in Genomes :
        /\ DoubleEq(distance_to(a, b), distance_to(b, a))
        /\ DoubleEq(distance_to(a, a), Fraction(0, 1))
        /\ is_compatible_with(a, b) <=> is_compatible_with(b, a)

\* C10: get_random_mutation invokes the drawn mutation operator at most three
\* times in total, the first draw and at most two more after a failure.
C10_AtMostThreeDraws ==
    last.op = "get_random_mutation" => last.calls <= 3

MutationOperators ==
    {"mutate_add_link", "mutate_add_neuron", "mutate_all_weights",
     "mutate_one_weight", "mutate_reset_weights", "mutate_remove_gene",
     "mutate_reenable_gene", "mutate_toggle_enable"}

\* the step applies an operation that reports failure
FailedStep(ops) == steps' = steps + 1 /\ last'.op \in ops /\ ~last'.ok

EpochStep == last'.op = "epoch" /\ steps' = steps + 1

\* the highest fitness held in the population
ChampionFitness ==
    CHOOSE f \in {population[i].fitness : i \in DOMAIN population} :
        \A i \in DOMAIN population : population[i].fitness <= f

\* C12: in every epoch, if the fitness of the generation's champion strictly
\* exceeds that of the stored best genome ever, or none is stored, the best
\* genome ever becomes a copy of the champion and its age is 0 after the
\* epoch; otherwise the stored best genome ever is unchanged and its age is
\* one greater than before.  Hence its fitness never decreases.
C12_EpochTracksBestEver ==
    [][ EpochStep =>
          /\ phase' = "running"
          /\ IF best_genome_ever = << >>
                \/ ChampionFitness > best_genome_ever.fitness
             THEN /\ best_genome_ever' \in Genomes
                  /\ best_genome_ever'.fitness = ChampionFitness
                  /\ age_of_best_genome_ever' = 0
             ELSE /\ best_genome_ever' = best_genome_ever
                  /\ age_of_best_genome_ever' = age_of_best_genome_ever + 1
                  /\ best_genome_ever'.fitness >= best_genome_ever.fitness
      ]_vars

\* the step serialises the driver and loads the stream into a fresh driver
ReloadStep == last'.op = "reload" /\ steps' = steps + 1

\* C13: serialising a driver and deserialising the stream into a fresh driver
\* with the same parameters gives the same next species id and age of the
\* best genome ever, the same best genome ever with the same fitness and gene
\* list, the same number of species, and a library of best genomes with the
\* same genomes in the same order, each with the same fitness and gene list.
C13_SerializeRoundTrip ==
    [][ ReloadStep =>
          /\ next_species_id' = next_species_id
          /\ age_of_best_genome_ever' = age_of_best_genome_ever
          /\ (best_genome_ever = << >>) <=> (best_genome_ever' = << >>)
          /\ best_genome_ever # << >> =>
                /\ best_genome_ever'.fitness = best_genome_ever.fitness
                /\ best_genome_ever'.genes = best_genome_ever.genes
          /\ Len(all_species') = Len(all_species)
          /\ Len(best_genomes_library') = Len(best_genomes_library)
          /\ \A k \in DOMAIN best_genomes_library :
                /\ best_genomes_library'[k].fitness
                      = best_genomes_library[k].fitness
                /\ best_genomes_library'[k].genes
                      = best_genomes_library[k].genes
      ]_vars

\* the species, by position, whose representant population[i] is compatible
\* with
CompatibleSpecies(i) ==
    {k \in DOMAIN all_species :
        is_compatible_with(population[i], all_species[k].representant)}

\* the step hands genome last'.i - 1 to helper_speciate_one_genome
SpeciateStep ==
    last'.op = "helper_speciate_one_genome" /\ all_species' # all_species

\* speciating all of pop from an empty species list
SpeciatedAlone(pop) ==
    helper_speciate_all_population(
        [all_species |-> << >>, next_species_id |-> 0], pop).all_species

\* C14: speciating a genome adds its id to exactly one species, the first in
\* list order whose representant it is compatible with, and when there is
\* none exactly one species is appended, with the genome as representant and
\* sole member; after helper_speciate_all_population on a population without
\* memberships every genome id is a member of exactly one species, and a
\* population whose genomes are all compatible with the first one gives
\* exactly one species.
C14_SpeciationPlacesGenomeOnce ==
    [][ /\ SpeciateStep =>
              LET i == last'.i
              IN  IF CompatibleSpecies(i) # {}
                  THEN LET k == CHOOSE c \in CompatibleSpecies(i) :
                                   \A o \in CompatibleSpecies(i) : c <= o
                       IN  /\ Len(all_species') = Len(all_species)
                           /\ all_species'[k].members
                                 = Append(all_species[k].members, i - 1)
                           /\ \A o \in DOMAIN all_species :
                                 o # k => all_species'[o] = all_species[o]
                  ELSE /\ Len(all_species') = Len(all_species) + 1
                       /\ SubSeq(all_species', 1, Len(all_species))
                             = all_species
                       /\ all_species'[Len(all_species')].representant
                             = population[i]
                       /\ all_species'[Len(all_species')].members = <<i - 1>>
        /\ population' # population =>
           LET alone == SpeciatedAlone(population')
           IN  /\ \A id \in 0..(Len(population') - 1) :
                     Cardinality(Memberships(alone, id)) = 1
               /\ (\A g \in Range(population') :
                      is_compatible_with(g, population'[1]))
                     => Len(alone) = 1
        /\ last'.op = "init" =>
              \A id \in 0..(PopSize - 1) :
                 Cardinality(Memberships(all_species', id)) = 1
      ]_vars

\* a genome that is compatible with no representant has been given a species
\* of its own, after another one had joined an existing species
C14_Witness ==
    /\ last.op = "helper_speciate_one_genome"
    /\ Len(all_species) = 2
    /\ all_species[2].members = <<last.i - 1>>
    /\ Len(all_species[1].members) > PopSize

\* the step is a call of helper_update_best_genomes_library_with
LibraryStep ==
    /\ last'.op = "helper_update_best_genomes_library_with"
    /\ steps' = steps + 1

\* the genome handed to the call of the step: the call does not say which
\* genome it was given, so the step is described for each genome that gives
\* the library of the next state
LibraryStepFor(geno) ==
    LET library == best_genomes_library
        max_size == params.best_genomes_library_max_size
        lowest == {k \in DOMAIN library :
                      \A j \in DOMAIN library :
                         library[k].fitness <= library[j].fitness}
    IN  IF \E k \in DOMAIN library : library[k].genes = geno.genes
        THEN best_genomes_library' = library
        ELSE IF Len(library) < max_size
        THEN best_genomes_library' = Append(library, geno)
        ELSE IF lowest # {}
                /\ \A k \in lowest : library[k].fitness < geno.fitness
        THEN \E k \in lowest :
                best_genomes_library' = [library EXCEPT ![k] = geno]
        ELSE best_genomes_library' = library

\* C15: after any sequence of helper_update_best_genomes_library_with calls,
\* for every best_genomes_library_max_size, 0 included, the library holds at
\* most that many genomes and no two structurally equal ones; a call with a
\* genome already present changes nothing, a call on a library that is not
\* full appends the genome, a call on a full library replaces a member of
\* lowest fitness iff that fitness is strictly lower than the genome's and
\* changes nothing otherwise.
C15_LibraryBoundedAndDistinct ==
    [][ LibraryStep =>
          /\ phase' = "running" /\ last'.ok
          /\ \E geno \in Genomes : LibraryStepFor(geno)
          /\ Len(best_genomes_library')
                <= params.best_genomes_library_max_size
          /\ \A j, k \in DOMAIN best_genomes_library' :
                j # k => best_genomes_library'[j].genes
                           # best_genomes_library'[k].genes
      ]_vars

\* C16: constructing the driver with number_of_inputs = 0 or
\* number_of_outputs = 0 fails with the invalid-argument error and leaves no
\* driver to operate on; with both at least 1 the construction succeeds and
\* the driver has no species, no best genome ever and next species id 0.
C16_ConstructorRejectsZero ==
    /\ (params.number_of_inputs = 0 \/ params.number_of_outputs = 0)
          => phase = "failed" /\ ~ENABLED Next
    /\ (params.number_of_inputs >= 1 /\ params.number_of_outputs >= 1)
          => phase # "failed"
    /\ phase = "constructed"
          => /\ all_species = << >>
             /\ best_genome_ever = << >>
             /\ next_species_id = 0

\* a construction with no input and one output has thrown
C16_Witness ==
    /\ phase = "failed"
    /\ params.number_of_inputs = 0
    /\ params.number_of_outputs >= 1

\* C17: for every non-empty population and every assignment of fitness
\* values, all zero, all negative and all equal to the lowest representable
\* value included, get_current_best_genome returns a genome of the population
\* whose fitness is at least that of every genome of the population.
C17_ChampionAlwaysFound ==
    population # << >> =>
        \A c \in get_current_best_genome(population) :
            /\ ~c.crash
            /\ c.champion \in DOMAIN population
            /\ c.genome = population[c.champion]
            /\ \A i \in DOMAIN population :
                  population[i].fitness <= c.genome.fitness

\* the bias and the input neurons
BiasAndInputs == 0..NumInputs

\* C18: in every genome reached no gene has the bias or an input as its `to`
\* neuron; every destination position mutate_add_link can draw lies inside
\* m_known_neuron_ids and holds an output or a hidden neuron.
C18_NoLinkIntoBiasOrInput ==
    \A g \in Genomes :
        /\ \A k \in DOMAIN g.genes : g.genes[k].to \notin BiasAndInputs
        /\ \A d \in 0..(Len(g.known_neuron_ids) - NumInputs - 2) :
              /\ destination_index(d) \in 0..(Len(g.known_neuron_ids) - 1)
              /\ g.known_neuron_ids[destination_index(d) + 1]
                    \notin BiasAndInputs
        /\ (last.op = "mutate_add_link" /\ last.ok)
              => last.ev.to \notin BiasAndInputs

\* mutate_add_link has added a link whose destination is a hidden neuron
C18_Witness ==
    /\ last.op = "mutate_add_link" /\ last.ok
    /\ last.ev.to > NumInputs + NumOutputs
    /\ \E k \in DOMAIN population[last.i].genes :
          /\ population[last.i].genes[k].from = last.ev.from
          /\ population[last.i].genes[k].to = last.ev.to

\* the step is the call of init()
InitStep == phase = "constructed" /\ phase' = "running"

\* the genomes of pop from position k on are each one get_random_mutation of
\* seed, made one after the other on the pool, which ends as last_pool
RECURSIVE MutationsOfSeed(_, _, _, _, _)
MutationsOfSeed(seed, pool, pop, k, last_pool) ==
    IF k > Len(pop)
    THEN pool = last_pool
    ELSE \E r \in get_random_mutation(seed, pool) :
            /\ r.genome = pop[k]
            /\ MutationsOfSeed(seed, r.pool, pop, k + 1, last_pool)

\* the genes of genome g that link from to to
LinksOf(g, from, to) ==
    {k \in DOMAIN g.genes : g.genes[k].from = from /\ g.genes[k].to = to}

NeuronsOfKind(net, kind) == {p \in DOMAIN net.neurons : net.neurons[p] = kind}

\* the positions of the enabled genes of g, in the order of the gene list
EnabledGenes(g) == {k \in DOMAIN g.genes : g.genes[k].enabled}

\* the id of the network neuron made for neuron n of genome g: the neurons
\* are made in the order of m_known_neuron_ids, after the bias with id 0
NetworkIdOf(g, n) ==
    (CHOOSE p \in DOMAIN g.known_neuron_ids : g.known_neuron_ids[p] = n) - 1

\* the j-th enabled gene of g, by position in the gene list
NthEnabledGene(g, j) ==
    CHOOSE k \in EnabledGenes(g) :
        Cardinality({e \in EnabledGenes(g) : e <= k}) = j

\* C20: for every genome reached, generate_network makes one network neuron
\* for each input, each output and each hidden neuron of m_known_neuron_ids,
\* adds exactly one link for each enabled gene, with the weight of the gene
\* and between the network neurons made for its endpoints, and none for a
\* disabled gene; every endpoint of an enabled gene has an entry in the id
\* mapping.
C20_NetworkMirrorsEnabledGenes ==
    \A g \in Genomes :
        \A net \in generate_network(g) :
            /\ ~net.crash
            /\ Cardinality(NeuronsOfKind(net, "INPUT")) = NumInputs
            /\ Cardinality(NeuronsOfKind(net, "OUTPUT")) = NumOutputs
            /\ Cardinality(NeuronsOfKind(net, "HIDDEN"))
                  = Cardinality({n \in Range(g.known_neuron_ids) :
                                    n > NumInputs + NumOutputs})
            /\ Len(net.links) = Cardinality(EnabledGenes(g))
            /\ \A j \in DOMAIN net.links :
                  LET gene == g.genes[NthEnabledGene(g, j)]
                  IN  /\ gene.from \in Range(g.known_neuron_ids)
                      /\ gene.to \in Range(g.known_neuron_ids)
                      /\ net.links[j]
                            = Link(NetworkIdOf(g, gene.from),
                                   NetworkIdOf(g, gene.to), gene.weight)

\* a genome with a hidden neuron, a disabled gene and enabled genes has been
\* turned into a network with a link for each of the enabled genes only
C20_Witness ==
    \E g \in Genomes :
        /\ \E k \in DOMAIN g.genes : ~g.genes[k].enabled
        /\ Len(g.known_neuron_ids) > NumInputs + NumOutputs + 1
        /\ \E net \in generate_network(g) :
              /\ ~net.crash
              /\ net.links # << >>
              /\ Len(net.links) < Len(g.genes)
              /\ NeuronsOfKind(net, "HIDDEN") # {}

\* the genes of the offspring of the last crossover that bear the innovation
\* number
Emitted(innov_num) ==
    {last_crossover.genome.genes[k] :
        k \in {n \in DOMAIN last_crossover.genome.genes :
                  last_crossover.genome.genes[n].innov_num = innov_num}}

\* the weight the variant of the last crossover gives to the gene emitted for
\* the matching genes g1 of p1 and g2 of p2
InheritedWeight(e, g1, g2) ==
    LET p1 == last_crossover.p1
        p2 == last_crossover.p2
        w1 == Fraction(g1.weight, 1)
        w2 == Fraction(g2.weight, 1)
    IN  /\ last_crossover.variant = "crossover_multipoint_best" =>
              /\ p1.fitness > p2.fitness => DoubleEq(e.weight, w1)
              /\ p2.fitness > p1.fitness => DoubleEq(e.weight, w2)
        /\ last_crossover.variant = "crossover_multipoint_rnd" =>
              DoubleEq(e.weight, w1) \/ DoubleEq(e.weight, w2)
        /\ last_crossover.variant = "crossover_multipoint_avg" =>
              DoubleEq(e.weight, Fraction(g1.weight + g2.weight, 2))

\* C21: for every gene g1 of the first parent and g2 of the second parent
\* with the same innovation number, the offspring of a crossover holds one
\* gene with that innovation number, its endpoints are those of g1 and g2,
\* and its weight is the weight of the gene of the strictly fitter parent
\* under multipoint_best, the weight of g1 or of g2 under multipoint_rnd, and
\* (w1 + w2) / 2 under multipoint_avg.
C21_MatchingGenesInherited ==
    last_crossover # << >> =>
        \A i \in DOMAIN last_crossover.p1.genes,
           j \in DOMAIN last_crossover.p2.genes :
            LET g1 == last_crossover.p1.genes[i]
                g2 == last_crossover.p2.genes[j]
            IN  g1.innov_num = g2.innov_num =>
                    /\ Cardinality(Emitted(g1.innov_num)) = 1
                    /\ \A e \in Emitted(g1.innov_num) :
                          /\ e.from = g1.from /\ e.to = g1.to
                          /\ e.from = g2.from /\ e.to = g2.to
                          /\ InheritedWeight(e, g1, g2)

\* a multipoint_avg crossover of two parents of different fitness has emitted
\* a gene for matching genes whose weights differ by 1, so that the mean is
\* neither of the two weights
C21_Witness ==
    /\ last_crossover # << >>
    /\ last_crossover.variant = "crossover_multipoint_avg"
    /\ last_crossover.p1.fitness # last_crossover.p2.fitness
    /\ \E i \in DOMAIN last_crossover.p1.genes,
          j \in DOMAIN last_crossover.p2.genes :
          LET g1 == last_crossover.p1.genes[i]
              g2 == last_crossover.p2.genes[j]
          IN  /\ g1.innov_num = g2.innov_num
              /\ Abs(g1.weight - g2.weight) = 1
              /\ \E e \in Emitted(g1.innov_num) :
                    DoubleEq(e.weight, Fraction(g1.weight + g2.weight, 2))

\* C22: distance_to returns a number that is not NaN, is finite and is not
\* negative for every pair of genomes held after init and mutations, the
\* pairs with more than 4 genes in the larger genome and no matching
\* innovation number included.
C22_DistanceWellDefined ==
    \A a \in Genomes, b \in Genomes :
        LET d == distance_to(a, b)
        IN  /\ ~d.nan
            /\ d.den > 0
            /\ d.num >= 0

\* the step is a helper_deserialize_base_neat
LoadStep ==
    steps' = steps + 1 /\ last'.op = "helper_deserialize_base_neat"

\* C23: after helper_deserialize_base_neat the driver holds a best-ever
\* genome exactly when the stream read records one; a stream whose flag is
\* false leaves a driver that held a best-ever genome with none.
C23_LoadedBestEverFollowsFlag ==
    [][LoadStep =>
          ((best_genome_ever' # << >>) <=> token_bool(saved_stream[4]))]_vars

\* the step copy-constructs a driver
CopyStep ==
    steps' = steps + 1 /\ last'.op = "base_neat(const base_neat&)"

\* C24: copy-constructing a driver is safe in every state of the source
\* driver reached after init(): the process goes on, a source without a
\* best-ever genome gives a copy without one, and a source with a best-ever
\* genome gives a copy whose best-ever genome has the same fitness and genes.
C24_CopyConstructorSafe ==
    [][CopyStep =>
          /\ phase' = "running"
          /\ last'.ok
          /\ (best_genome_ever = << >>) <=> (best_genome_ever' = << >>)
          /\ best_genome_ever # << >> =>
                /\ best_genome_ever'.fitness = best_genome_ever.fitness
                /\ best_genome_ever'.genes = best_genome_ever.genes
          /\ age_of_best_genome_ever' = age_of_best_genome_ever
          /\ best_genomes_library' = best_genomes_library]_vars

====
